---- MODULE Spec2Model ----
(***************************************************************************)
(* Timeline page controllers of src/script.js (lines 1-409: the debounced  *)
(* TimelineScroll and TimelineController), and the fade timers of the two   *)
(* non-debounced variants (TimelineFilter of src/unnamed/part_000 and the   *)
(* second TimelineController of src/script.js).                             *)
(*                                                                          *)
(* Strings are sequences of one-character strings, so that toLowerCase and  *)
(* String.prototype.includes are computed and not assumed.                  *)
(*                                                                          *)
(* Page layout assumed by the click handlers (the markup is not part of the *)
(* sources): the filter buttons and the subcategory buttons sit inside      *)
(* .filter-group, the search input, the search button and the clear button  *)
(* sit inside .search-container, the subcategory buttons of category c sit  *)
(* inside the container with id c-subcategories and can be clicked only     *)
(* while that container carries the class show.                             *)
(***************************************************************************)
EXTENDS Integers, Sequences, FiniteSets, TLC

\* ---------------------------------------------------------------- bounds
\* pending requestAnimationFrame callbacks of applyAllFilters
MaxRaf == 1
\* pending fade-then-hide timers per event
MaxHide == 1
\* pending section-visibility timers
MaxSec == 1
\* window.innerHeight ranges over 1..MaxView
MaxView == 2
\* document.documentElement.scrollHeight ranges over 1..MaxPage
MaxPage == 5
\* how far window.pageYOffset may leave the scroll range (elastic overscroll)
Overscroll == 1
\* timers or animation-frame requests left pending by a call that replaced them
MaxStale == 2
\* pending revert timers per marker
MaxRevert == 2
\* how long the clock of a timed page runs, in milliseconds
MaxTime == 500

\* ---------------------------------------------------------------- delays
\* the delay of hideEvent's timer, in milliseconds
FadeDelay == 300
\* the delay of the section-visibility timer of applyAllFilters, in milliseconds
SectionDelay == 200
\* the delay of the section-visibility timer of the non-debounced variants
SectionDelaySync == 350

\* ---------------------------------------------------------------- values
NULL == "null"
UNDEFINED == "undefined"

SubBearing == {"founder", "regulation"}
\* data-filter codes a .filter-btn button may carry
FilterCodes == {"all", "founder", "regulation", "milestone"}
\* data-filter codes a .subcategory-btn button may carry
SubCodes == {"seed", "exit", "law"}

\* the category whose <category>-subcategories container holds button s
Owner(s) == IF s = "law" THEN "regulation" ELSE "founder"

\* ---------------------------------------------------------------- strings
Lower(c) ==
    CASE c = "A" -> "a"
      [] c = "B" -> "b"
      [] c = "F" -> "f"
      [] c = "S" -> "s"
      [] OTHER -> c

toLowerCase(s) == [i \in 1..Len(s) |-> Lower(s[i])]

\* String.prototype.includes: plain substring containment
includes(text, term) ==
    \E i \in 0..(Len(text) - Len(term)) :
        \A j \in 1..Len(term) : text[i + j] = term[j]

RECURSIVE join(_, _)
\* Array.prototype.join
join(parts, sep) ==
    IF Len(parts) = 0 THEN <<>>
    ELSE IF Len(parts) = 1 THEN parts[1]
    ELSE parts[1] \o sep \o join(Tail(parts), sep)

SP == <<" ">>

\* ---------------------------------------------------------------- page
Events == {"e1", "e2", "e3"}
\* the cards of a second page, one of which has a bracket in its title
BracketEvents == {"e4", "e5"}
Sections == {"s1", "s2"}

\* the section each event card sits in
SectionOf(e) == IF e = "e1" THEN "s1" ELSE "s2"

\* the text and data attributes of the event cards of the page
PageEvents ==
    [e \in Events \cup BracketEvents |->
        CASE e = "e1" ->
                [title |-> <<"A", "b">>, description |-> <<"s">>,
                 year |-> <<"1">>,
                 categoryTags |-> << <<"f">> >>, subcategoryTags |-> << <<"S">> >>,
                 category |-> "founder", subcategory |-> "seed"]
          [] e = "e2" ->
                [title |-> <<"b">>, description |-> <<"s">>,
                 year |-> <<"2">>,
                 categoryTags |-> << <<"f">> >>, subcategoryTags |-> << >>,
                 category |-> "founder", subcategory |-> "exit"]
          [] e = "e3" ->
                [title |-> <<"B">>, description |-> <<"b">>,
                 year |-> <<"2">>,
                 categoryTags |-> << <<"r">>, <<"m", "A">> >>, subcategoryTags |-> << >>,
                 category |-> "regulation", subcategory |-> UNDEFINED]
          [] e = "e4" ->
                [title |-> <<"A", "(", "b">>, description |-> <<"s">>,
                 year |-> <<"3">>,
                 categoryTags |-> << <<"f">> >>, subcategoryTags |-> << <<"S">> >>,
                 category |-> "founder", subcategory |-> "seed"]
          [] OTHER ->
                [title |-> <<"b">>, description |-> <<"s">>,
                 year |-> <<"3">>,
                 categoryTags |-> << <<"r">> >>, subcategoryTags |-> << >>,
                 category |-> "regulation", subcategory |-> UNDEFINED]]

\* the cards in document order, the order in which forEach visits them
DocumentOrder == <<"e1", "e2", "e3", "e4", "e5">>
Position(e) == CHOOSE i \in 1..Len(DocumentOrder) : DocumentOrder[i] = e

\* values typed into the search input
Terms == {<< >>, <<"A">>}
\* values typed into the search input of the second page
BracketTerms == {<< >>, <<"A">>, <<"(">>}

\* ---------------------------------------------------------------- state
VARIABLES
    \* TimelineController fields
    events,             \* this.events: the .event cards of the page
    timelineSections,   \* this.timelineSections: the .timeline-section nodes
    filterButtons,      \* this.filterButtons, by data-filter code
    subcategoryButtons, \* this.subcategoryButtons, by data-filter code
    currentFilter, currentSubcategory, currentSearchTerm,
    eventData,          \* the Map built by preloadEventData
    searchInput,        \* getElementById('searchInput') found a node
    containers,         \* categories whose <category>-subcategories node exists
    raised,             \* the constructor or a handler threw an uncaught error
    inputValue,         \* searchInput.value
    searchTimeout,      \* the timer debouncedSearch set last is pending
    filterTimeout,      \* the timer debouncedFilter set last is pending
    staleSearchTimers,  \* pending timers of debouncedSearch set before the last one
    staleFilterTimers,  \* pending timers of debouncedFilter set before the last one
    rafPending,         \* queued requestAnimationFrame callbacks of applyAllFilters
    \* DOM
    show,               \* categories whose <category>-subcategories has class show
    filterActive,       \* .filter-btn codes carrying class active
    subActive,          \* .subcategory-btn codes carrying class active
    display, opacity,   \* event.style.display / event.style.opacity
    nodes,              \* child nodes of each event's h3 (title) and p (description)
    hideTimers,         \* pending hideEvent timers per event
    sectionDisplay,     \* section.style.display
    sectionTimers,      \* pending updateSectionVisibility timers
    \* history: the handler that ran last, the state it started from, and the
    \* filter, subcategory and term the last pass read
    lastOp, pre, passRead,
    \* TimelineScroll and the window it listens to
    scrollHeight,       \* document.documentElement.scrollHeight
    innerHeight,        \* window.innerHeight
    pageYOffset,        \* window.pageYOffset
    isScrolling,        \* this.isScrolling
    ticking,            \* the closure variable of setupScrollListener
    animationFrameId,   \* the request this.animationFrameId names is pending
    staleFrames,        \* pending requests of updateProgress made before that one
    tornDown,           \* destroy() has run
    markerDots,         \* the sections that hold a .marker-dot
    visible,            \* the sections carrying class visible
    animated,           \* the sections whose marker carries class animated
    transform,          \* marker.style.transform per section
    revertTimers,       \* pending revert timers of animateMarker per section
    scrollTimeout,      \* this.scrollTimeout is pending
    scrollPercent,      \* the number updateProgress last put into style.width
    progressWidth,      \* progressBar.style.width, in percent
    \* one call of a matching function: its arguments and its result
    fnArgs, fnResult,
    keys,               \* the values the user types into the search input
    script,             \* the class the page's script constructs for the filters
    \* the clock and the times at which the pending timers are due
    timed,              \* the page is run against the clock
    now,                \* milliseconds since the controller was constructed
    hideDue,            \* due times of the pending hideEvent timers per event
    sectionDue          \* due times of the pending updateSectionVisibility timers

pageVars == <<events, timelineSections, filterButtons, subcategoryButtons, eventData,
              searchInput, containers, markerDots, keys, script, timed>>
ctrlVars == <<currentFilter, currentSubcategory, currentSearchTerm,
              inputValue, searchTimeout, filterTimeout, rafPending,
              staleSearchTimers, staleFilterTimers, raised>>
domVars == <<show, filterActive, subActive, display, opacity, nodes, hideTimers,
             sectionDisplay, sectionTimers, hideDue, sectionDue>>
histVars == <<lastOp, pre, passRead>>
scrollVars == <<scrollHeight, innerHeight, pageYOffset, isScrolling, ticking,
                animationFrameId, scrollTimeout, scrollPercent, progressWidth,
                staleFrames, tornDown>>
markerVars == <<visible, animated, transform, revertTimers>>
fnVars == <<fnArgs, fnResult>>
vars == <<pageVars, ctrlVars, domVars, histVars, scrollVars, markerVars, fnVars, now>>

\* ---------------------------------------------------------------- DOM text
\* The children of an h3 or p element: text nodes and search-highlight spans.
TextNode(s) == [hl |-> FALSE, text |-> s]
SpanNode(s) == [hl |-> TRUE, text |-> s]
TextNodes(s) == IF s = << >> THEN << >> ELSE << TextNode(s) >>

RECURSIVE textContent(_)
\* Node.textContent of an element with these children
textContent(ns) ==
    IF Len(ns) = 0 THEN << >> ELSE ns[1].text \o textContent(Tail(ns))

\* ---------------------------------------------------------------- startup
\* preloadEventData: the cached record of one event
preloadEventData(ev) ==
    [text |-> toLowerCase(ev.title \o SP \o ev.description \o SP \o ev.year \o SP
                          \o join(ev.categoryTags, SP) \o SP
                          \o join(ev.subcategoryTags, SP)),
     category |-> ev.category,
     subcategory |-> ev.subcategory]

\* what the history keeps of the state a handler started from
Snapshot ==
    [filter |-> currentFilter, sub |-> currentSubcategory,
     term |-> currentSearchTerm, show |-> show,
     display |-> display, opacity |-> opacity, raf |-> rafPending,
     timer |-> searchTimeout, read |-> passRead]

\* the constructor of TimelineController on a page holding the event cards evs,
\* the filter buttons fbs and the subcategory buttons sbs; history says what is
\* kept of the past: nothing ("off"), the last step ("steps"), or the last step
\* and what the last pass read ("passes")
InitController(evs, fbs, sbs, history) ==
    /\ events = evs
    /\ filterButtons = fbs
    /\ subcategoryButtons = sbs
    /\ timelineSections = {SectionOf(e) : e \in evs}
    /\ currentFilter = "all"
    /\ currentSubcategory = NULL
    /\ currentSearchTerm = << >>
    /\ eventData = [e \in evs |-> preloadEventData(PageEvents[e])]
    /\ inputValue = << >>
    /\ searchTimeout = FALSE
    /\ filterTimeout = FALSE
    /\ staleSearchTimers = 0
    /\ staleFilterTimers = 0
    /\ rafPending = 0
    /\ show = {}
    /\ filterActive = {"all"}
    /\ subActive = {}
    /\ display = [e \in evs |-> ""]
    /\ opacity = [e \in evs |-> ""]
    /\ nodes = [e \in evs |->
                    [title |-> TextNodes(PageEvents[e].title),
                     description |-> TextNodes(PageEvents[e].description)]]
    /\ hideTimers = [e \in evs |-> 0]
    /\ sectionDisplay = [s \in {SectionOf(e) : e \in evs} |-> ""]
    /\ sectionTimers = 0
    /\ lastOp = IF history = "off" THEN <<"off">> ELSE <<"init">>
    /\ pre = [filter |-> "all", sub |-> NULL, term |-> << >>, show |-> {},
              display |-> [e \in evs |-> ""], opacity |-> [e \in evs |-> ""],
              raf |-> 0, timer |-> FALSE, read |-> << >>]
    /\ passRead = IF history = "passes" THEN << >> ELSE <<"off">>

\* the nodes the constructor and the handlers look up: without the search input
\* setupSearchListeners raises at its first statement, so that init() installs
\* no listener and builds no Map
InitNodes(input, cs) ==
    /\ searchInput = input
    /\ containers = cs
    /\ raised = ~input

\* the script that runs on the page and the values ks the user types
InitScript(class, ks) ==
    /\ script = class
    /\ keys = ks

\* the clock: a timed page starts at 0 ms with no timer pending; on an untimed
\* page a pending timer may fire at any moment and no due time is kept
InitClock(on) ==
    /\ timed = on
    /\ now = 0
    /\ hideDue = [e \in events |-> << >>]
    /\ sectionDue = << >>

\* setTimeout called k times in one callback with the same delay: the due times
\* of the timers pending afterwards, oldest first
setTimeout(due, k, delay) ==
    IF timed THEN due \o [i \in 1..k |-> now + delay] ELSE due

\* the oldest timer of the due times may fire: its delay has elapsed
elapsed(due) == timed => (due # << >> /\ Head(due) <= now)

\* the due times left when the oldest timer has fired
fired(due) == IF timed THEN Tail(due) ELSE due

\* a debounced function whose earlier timer is not cleared by a new call
debounceKeepsTimers(pending, stale) ==
    [pending |-> TRUE, stale |-> stale + (IF pending THEN 1 ELSE 0)]

\* one call of a function made by debounce, given whether the timer of its last
\* call is pending and how many earlier ones are: clearTimeout, then setTimeout
debounce(pending, stale) == [pending |-> TRUE, stale |-> stale]

\* ---------------------------------------------------------------- matching
\* a matchesSearch that compares the term as typed
matchesSearchCaseSensitive(data, term) ==
    IF term = << >> THEN TRUE
    ELSE includes(data.text, term)

\* matchesSearch, as a function of the cached record and the search term
matchesSearch(data, term) ==
    IF term = << >> THEN TRUE
    ELSE includes(data.text, toLowerCase(term))

\* a matchesFilter that tests the subcategory without testing the category first
matchesFilterSubFirst(data, filter, sub) ==
    IF filter = "all" THEN TRUE
    ELSE IF sub # NULL THEN data.subcategory = sub
    ELSE data.category = filter

\* a matchesFilter without the early return for the filter 'all'
matchesFilterNoAll(data, filter, sub) ==
    IF data.category # filter THEN FALSE
    ELSE IF sub # NULL THEN data.subcategory = sub
    ELSE TRUE

\* matchesFilter, as a function of the cached record, filter and subcategory
matchesFilter(data, filter, sub) ==
    IF filter = "all" THEN TRUE
    ELSE IF data.category # filter THEN FALSE
    ELSE IF sub # NULL THEN data.subcategory = sub
    ELSE TRUE

\* an applyAllFilters that shows an event matching either predicate
shouldShowEither(e) ==
    \/ matchesSearch(eventData[e], currentSearchTerm)
    \/ matchesFilter(eventData[e], currentFilter, currentSubcategory)

\* the condition of applyAllFilters under which an event goes to showEvent
shouldShow(e) ==
    /\ matchesSearch(eventData[e], currentSearchTerm)
    /\ matchesFilter(eventData[e], currentFilter, currentSubcategory)

\* ---------------------------------------------------------------- highlights
\* the first index at which the pattern (term), flags gi, matches text; 0 if none
firstMatch(text, term) ==
    LET hits == {i \in 1..(Len(text) - Len(term) + 1) :
                    toLowerCase(SubSeq(text, i, i + Len(term) - 1)) = toLowerCase(term)}
    IN  IF hits = {} THEN 0 ELSE CHOOSE i \in hits : \A k \in hits : i <= k

\* Markup is a sequence of characters and of these two tokens, which stand for the
\* strings the replacement puts around a match.
OPEN == "<span class=\"search-highlight\">"
CLOSE == "</span>"

\* the ASCII letters of the texts and terms of the model
Letters == {"a", "b", "f", "m", "r", "s", "x", "A", "B", "F", "S"}

RECURSIVE replaceAll(_, _)
\* text.replace(regex, '<span class="search-highlight">$1</span>'), for a term
\* without regular-expression metacharacters
replaceAll(text, term) ==
    LET p == firstMatch(text, term)
    IN  IF p = 0 THEN text
        ELSE SubSeq(text, 1, p - 1)
             \o <<OPEN>> \o SubSeq(text, p, p + Len(term) - 1) \o <<CLOSE>>
             \o replaceAll(SubSeq(text, p + Len(term), Len(text)), term)

\* the children after one more character of text; inSpan: a highlight span is open
appendChar(acc, c, inSpan) ==
    IF acc # << >> /\ acc[Len(acc)].hl = inSpan
    THEN [acc EXCEPT ![Len(acc)].text = @ \o <<c>>]
    ELSE acc \o << TextNode(<<c>>) >>

RECURSIVE parseHTML(_, _, _, _)
\* The HTML parser on markup m. A '<' followed by a letter opens a tag, which runs
\* to the next '>' (the one ending a span token included) or to the end of input,
\* and leaves no text; every other character is text. Elements other than the
\* highlight spans are not kept: the children are the text and the spans in
\* document order. Character references are not modelled.
parseHTML(m, inTag, inSpan, acc) ==
    IF m = << >> THEN acc
    ELSE
        LET c == Head(m)
            rest == Tail(m)
        IN  IF inTag THEN
                parseHTML(rest, ~(c \in {">", OPEN, CLOSE}), inSpan, acc)
            ELSE IF c = OPEN THEN
                parseHTML(rest, FALSE, TRUE, acc \o << SpanNode(<< >>) >>)
            ELSE IF c = CLOSE THEN
                parseHTML(rest, FALSE, FALSE, acc)
            ELSE IF c = "<" /\ rest # << >> /\ Head(rest) \in Letters THEN
                parseHTML(rest, TRUE, inSpan, acc)
            ELSE
                parseHTML(rest, FALSE, inSpan, appendChar(acc, c, inSpan))

\* element.innerHTML = markup: the children the element has afterwards
innerHTML(markup) == parseHTML(markup, FALSE, FALSE, << >>)

\* removeHighlights on one element: every span becomes text, then normalize()
removeHighlights(ns) ==
    IF \E i \in 1..Len(ns) : ns[i].hl THEN TextNodes(textContent(ns)) ELSE ns

\* new RegExp(`(${term})`, 'gi') throws a SyntaxError: of the characters of the
\* model only '(' is a metacharacter, and a term holding it leaves a group of
\* the pattern unterminated
RegExpThrows(term) == \E i \in 1..Len(term) : term[i] = "("

\* highlightText on one element; when the RegExp constructor throws, the element
\* is left as it was
highlightText(ns, term) ==
    IF RegExpThrows(term) THEN ns ELSE innerHTML(replaceAll(textContent(ns), term))

\* highlightSearchTerm on the title and description of one event: removeHighlights
\* on the whole event, then highlightText on the title and on the description;
\* when the first of them throws, the event keeps what removeHighlights left
highlightSearchTerm(el, term) ==
    [title |-> highlightText(removeHighlights(el.title), term),
     description |-> highlightText(removeHighlights(el.description), term)]

\* ---------------------------------------------------------------- buttons
\* updateFilterButtons: the codes left active when the filter is f
updateFilterButtons(f) == IF f \in filterButtons THEN {f} ELSE {}

\* updateSubcategoryButtons: the codes left active when the subcategory is s
updateSubcategoryButtons(s) == IF s \in subcategoryButtons THEN {s} ELSE {}

\* a resetAllButtons that adds the class to 'all' without removing the others
resetAllButtonsKeep ==
    [filterActive |-> filterActive \cup {"all"}, subActive |-> subActive,
     raised |-> "all" \notin filterButtons]

\* resetAllButtons: the filter and subcategory codes left active, and whether the
\* unchecked querySelector('[data-filter="all"]') was null
resetAllButtons ==
    [filterActive |-> IF "all" \in filterButtons THEN {"all"} ELSE {},
     subActive |-> {},
     raised |-> "all" \notin filterButtons]

\* a hideAllSubcategories that removes nothing
hideAllSubcategoriesSkipped == show

\* hideAllSubcategories: the containers left with class show
hideAllSubcategories == {}

\* ---------------------------------------------------------------- history
\* Where the history is kept, a step records the handler that ran and the state it
\* started from; the page is never rebuilt.
Did(op) ==
    /\ IF lastOp = <<"off">> THEN UNCHANGED histVars
       ELSE /\ lastOp' = op
            /\ pre' = Snapshot
            /\ passRead' = IF op = <<"pass">> /\ passRead # <<"off">>
                           THEN <<currentFilter, currentSubcategory, currentSearchTerm>>
                           ELSE passRead
    /\ UNCHANGED <<pageVars, scrollVars, markerVars, fnVars, now>>

\* ---------------------------------------------------------------- handlers
\* 'input' listener of the search input: the value becomes v
InputEvent(v) ==
    /\ searchInput
    /\ v # inputValue
    /\ debounce(searchTimeout, staleSearchTimers).stale <= MaxStale
    /\ inputValue' = v
    /\ currentSearchTerm' = v
    /\ searchTimeout' = debounce(searchTimeout, staleSearchTimers).pending
    /\ staleSearchTimers' = debounce(searchTimeout, staleSearchTimers).stale
    /\ Did(<<"input">>)
    /\ UNCHANGED <<currentFilter, currentSubcategory, filterTimeout,
                   staleFilterTimers, raised, rafPending, domVars>>

\* 'keydown' listener of the search input, key Enter
EnterKey ==
    /\ searchInput
    /\ rafPending < MaxRaf
    /\ currentSearchTerm' = inputValue
    /\ rafPending' = rafPending + 1              \* performSearch -> applyAllFilters
    /\ Did(<<"enter">>)
    /\ UNCHANGED <<currentFilter, currentSubcategory, inputValue,
                   searchTimeout, filterTimeout, staleSearchTimers,
                   staleFilterTimers, raised, domVars>>

\* 'click' listener of the search button
SearchButtonClick ==
    /\ searchInput
    /\ rafPending < MaxRaf
    /\ currentSearchTerm' = inputValue
    /\ rafPending' = rafPending + 1
    /\ Did(<<"searchButton">>)
    /\ UNCHANGED <<currentFilter, currentSubcategory, inputValue,
                   searchTimeout, filterTimeout, staleSearchTimers,
                   staleFilterTimers, raised, domVars>>

\* 'click' listener of the clear button
ClearButtonClick ==
    /\ searchInput
    /\ rafPending < MaxRaf
    /\ currentSearchTerm' = << >>
    /\ inputValue' = << >>
    /\ currentFilter' = "all"
    /\ currentSubcategory' = NULL
    /\ filterActive' = resetAllButtons.filterActive
    /\ subActive' = resetAllButtons.subActive
    /\ raised' = (raised \/ resetAllButtons.raised)
    \* applyAllFilters, unless resetAllButtons threw
    /\ rafPending' = IF resetAllButtons.raised THEN rafPending ELSE rafPending + 1
    /\ Did(<<"clear">>)
    /\ UNCHANGED <<searchTimeout, filterTimeout, staleSearchTimers,
                   staleFilterTimers, show, display, opacity,
                   nodes, hideTimers, sectionDisplay, sectionTimers, hideDue,
                   sectionDue>>

\* the filter listener of the non-debounced controller: the same filter again
\* always clears the subcategory and hides the pickers
filterClickLegacy(f) ==
    IF f = "all" THEN
        [filter |-> "all", sub |-> NULL, show |-> hideAllSubcategories,
         filterActive |-> updateFilterButtons("all"), subActive |-> subActive,
         raised |-> FALSE]
    ELSE IF f \in SubBearing THEN
        IF currentFilter = f THEN
            [filter |-> currentFilter, sub |-> NULL, show |-> hideAllSubcategories,
             filterActive |-> filterActive,
             subActive |-> updateSubcategoryButtons(NULL), raised |-> FALSE]
        ELSE
            [filter |-> f, sub |-> NULL,
             show |-> hideAllSubcategories \cup ({f} \cap containers),
             filterActive |-> updateFilterButtons(f), subActive |-> subActive,
             raised |-> FALSE]
    ELSE
        [filter |-> currentFilter, sub |-> currentSubcategory, show |-> show,
         filterActive |-> updateFilterButtons(currentFilter), subActive |-> subActive,
         raised |-> FALSE]

\* the fields and classes the 'click' listener of the filter button with
\* data-filter f leaves behind, and whether it threw
filterClick(f) ==
    IF f = "all" THEN
        [filter |-> "all", sub |-> NULL, show |-> hideAllSubcategories,
         filterActive |-> updateFilterButtons("all"), subActive |-> subActive,
         raised |-> FALSE]
    ELSE IF f \in SubBearing THEN
        IF currentFilter = f THEN
            \* the same filter again: toggle its subcategories, then return
            IF f \notin containers THEN
                \* subcategoryContainer is null: .classList throws
                [filter |-> currentFilter, sub |-> currentSubcategory, show |-> show,
                 filterActive |-> filterActive, subActive |-> subActive,
                 raised |-> TRUE]
            ELSE IF f \in show THEN
                [filter |-> currentFilter, sub |-> NULL, show |-> hideAllSubcategories,
                 filterActive |-> filterActive,
                 subActive |-> updateSubcategoryButtons(NULL), raised |-> FALSE]
            ELSE
                [filter |-> currentFilter, sub |-> currentSubcategory,
                 show |-> show \cup {f},
                 filterActive |-> filterActive, subActive |-> subActive,
                 raised |-> FALSE]
        ELSE
            [filter |-> f, sub |-> NULL,
             show |-> hideAllSubcategories \cup ({f} \cap containers),
             filterActive |-> updateFilterButtons(f), subActive |-> subActive,
             raised |-> FALSE]
    ELSE
        [filter |-> currentFilter, sub |-> currentSubcategory, show |-> show,
         filterActive |-> updateFilterButtons(currentFilter), subActive |-> subActive,
         raised |-> FALSE]

\* 'click' listener of the filter button with data-filter f
FilterClick(f) ==
    /\ searchInput
    /\ debounce(filterTimeout, staleFilterTimers).stale <= MaxStale
    /\ currentFilter' = filterClick(f).filter
    /\ currentSubcategory' = filterClick(f).sub
    /\ show' = filterClick(f).show
    /\ filterActive' = filterClick(f).filterActive
    /\ subActive' = filterClick(f).subActive
    /\ raised' = (raised \/ filterClick(f).raised)
    \* debouncedFilter(), unless the listener threw
    /\ IF filterClick(f).raised
       THEN UNCHANGED <<filterTimeout, staleFilterTimers>>
       ELSE /\ filterTimeout' = debounce(filterTimeout, staleFilterTimers).pending
            /\ staleFilterTimers' = debounce(filterTimeout, staleFilterTimers).stale
    /\ Did(<<"filter", f>>)
    /\ UNCHANGED <<currentSearchTerm, inputValue, searchTimeout, staleSearchTimers,
                   rafPending, display, opacity, nodes, hideTimers, sectionDisplay,
                   sectionTimers, hideDue, sectionDue>>

\* 'click' listener of the subcategory button with data-filter s
SubcategoryClick(s) ==
    /\ searchInput
    /\ Owner(s) \in show
    /\ debounce(filterTimeout, staleFilterTimers).stale <= MaxStale
    /\ currentSubcategory' = s
    /\ subActive' = updateSubcategoryButtons(s)
    /\ filterTimeout' = debounce(filterTimeout, staleFilterTimers).pending
    /\ staleFilterTimers' = debounce(filterTimeout, staleFilterTimers).stale
    /\ Did(<<"subcategory">>)
    /\ UNCHANGED <<currentFilter, currentSearchTerm, inputValue, raised,
                   searchTimeout, staleSearchTimers, rafPending, show, filterActive,
                   display, opacity, nodes, hideTimers, sectionDisplay, sectionTimers,
                   hideDue, sectionDue>>

\* an outside click that also drops the subcategory, as closing the picker from
\* its filter button does
OutsideClickClears ==
    /\ searchInput
    /\ show' = hideAllSubcategories
    /\ currentSubcategory' = NULL
    /\ Did(<<"outside">>)
    /\ UNCHANGED <<currentFilter, currentSearchTerm, inputValue, searchTimeout,
                   filterTimeout, staleSearchTimers, staleFilterTimers, raised,
                   rafPending, filterActive, subActive, display,
                   opacity, nodes, hideTimers, sectionDisplay, sectionTimers,
                   hideDue, sectionDue>>

\* document 'click' listener, target outside .filter-group and .search-container
OutsideClick ==
    /\ searchInput
    /\ show' = hideAllSubcategories
    /\ Did(<<"outside">>)
    /\ UNCHANGED <<ctrlVars, filterActive, subActive, display, opacity, nodes,
                   hideTimers, sectionDisplay, sectionTimers, hideDue, sectionDue>>

\* a timer of debouncedSearch fires, the one set last or an earlier one: later()
\* clears the timer set last and calls performSearch -> applyAllFilters
DebouncedSearchFire ==
    /\ rafPending < MaxRaf
    /\ \E last \in BOOLEAN :
        /\ IF last THEN searchTimeout ELSE staleSearchTimers > 0
        /\ staleSearchTimers' = IF last THEN staleSearchTimers
                                ELSE staleSearchTimers - 1
    /\ searchTimeout' = FALSE
    /\ rafPending' = rafPending + 1
    /\ Did(<<"debouncedSearch">>)
    /\ UNCHANGED <<currentFilter, currentSubcategory, currentSearchTerm,
                   inputValue, filterTimeout, staleFilterTimers, raised, domVars>>

\* a timer of debouncedFilter fires, the one set last or an earlier one: later()
\* clears the timer set last and calls applyAllFilters
DebouncedFilterFire ==
    /\ rafPending < MaxRaf
    /\ \E last \in BOOLEAN :
        /\ IF last THEN filterTimeout ELSE staleFilterTimers > 0
        /\ staleFilterTimers' = IF last THEN staleFilterTimers
                                ELSE staleFilterTimers - 1
    /\ filterTimeout' = FALSE
    /\ rafPending' = rafPending + 1
    /\ Did(<<"debouncedFilter">>)
    /\ UNCHANGED <<currentFilter, currentSubcategory, currentSearchTerm,
                   inputValue, searchTimeout, staleSearchTimers, raised, domVars>>

\* ---------------------------------------------------------------- the pass
\* the children el of event e's title and description after one pass handled e
passNodes(el, e) ==
    IF ~shouldShow(e) THEN el
    ELSE IF currentSearchTerm # << >> THEN highlightSearchTerm(el, currentSearchTerm)
    ELSE [title |-> removeHighlights(el.title),
          description |-> removeHighlights(el.description)]

RECURSIVE passesNodes(_, _, _)
\* the children after k passes in a row
passesNodes(el, e, k) ==
    IF k = 0 THEN el ELSE passesNodes(passNodes(el, e), e, k - 1)

\* the events whose highlightSearchTerm call throws in a pass
Throwers ==
    IF currentSearchTerm # << >> /\ RegExpThrows(currentSearchTerm)
    THEN {e \in events : shouldShow(e)}
    ELSE {}

\* forEach of a pass reaches event e: no earlier event made the callback throw
reached(e) == \A t \in Throwers : Position(e) <= Position(t)

\* the animation frame runs every queued callback of applyAllFilters: each is one
\* pass over the events (showEvent or hideEvent) and starts one section timer; a
\* callback in which highlightSearchTerm throws ends at that event, after
\* showEvent and removeHighlights, and starts no section timer
AnimationFrame ==
    /\ rafPending > 0
    /\ \A e \in events : ~shouldShow(e) => hideTimers[e] + rafPending <= MaxHide
    /\ sectionTimers + rafPending <= MaxSec
    /\ display' = [e \in events |->
                        IF reached(e) /\ shouldShow(e) THEN "flex" ELSE display[e]]
    /\ opacity' = [e \in events |->
                        IF ~reached(e) THEN opacity[e]
                        ELSE IF shouldShow(e) THEN "1" ELSE "0"]
    /\ nodes' = [e \in events |->
                        IF reached(e) THEN passesNodes(nodes[e], e, rafPending)
                        ELSE nodes[e]]
    /\ hideTimers' = [e \in events |->
                        IF reached(e) /\ ~shouldShow(e)
                        THEN hideTimers[e] + rafPending
                        ELSE hideTimers[e]]
    /\ sectionTimers' = IF Throwers = {} THEN sectionTimers + rafPending
                        ELSE sectionTimers
    /\ hideDue' = [e \in events |->
                        IF reached(e) /\ ~shouldShow(e)
                        THEN setTimeout(hideDue[e], rafPending, FadeDelay)
                        ELSE hideDue[e]]
    /\ sectionDue' = IF Throwers = {} THEN setTimeout(sectionDue, rafPending, SectionDelay)
                     ELSE sectionDue
    /\ raised' = (raised \/ Throwers # {})
    /\ rafPending' = 0
    /\ Did(<<"pass">>)
    /\ UNCHANGED <<currentFilter, currentSubcategory, currentSearchTerm,
                   inputValue, searchTimeout, filterTimeout, staleSearchTimers,
                   staleFilterTimers, show, filterActive,
                   subActive, sectionDisplay>>

\* the timer callback of the non-debounced controller: no test of the opacity
hideCallbackUnguarded(e) == "none"

\* the callback of hideEvent's timer: the display it leaves on event e
hideCallback(e) == IF opacity[e] = "0" THEN "none" ELSE display[e]

\* a fade-then-hide timer of event e fires
HideTimerFire(e) ==
    /\ hideTimers[e] > 0
    /\ elapsed(hideDue[e])
    /\ hideTimers' = [hideTimers EXCEPT ![e] = @ - 1]
    /\ hideDue' = [hideDue EXCEPT ![e] = fired(@)]
    /\ display' = [display EXCEPT ![e] = hideCallback(e)]
    /\ Did(<<"hideTimer">>)
    /\ UNCHANGED <<ctrlVars, show, filterActive, subActive, opacity, nodes,
                   sectionDisplay, sectionTimers, sectionDue>>

\* an updateSectionVisibility that counts every event still laid out
updateSectionVisibilityDisplayOnly(s) ==
    LET visibleEvents == {e \in events : SectionOf(e) = s /\ display[e] # "none"}
    IN  IF Cardinality(visibleEvents) = 0 THEN "none" ELSE "block"

\* updateSectionVisibility: the display it sets on section s
updateSectionVisibility(s) ==
    LET visibleEvents == {e \in events :
                            /\ SectionOf(e) = s
                            /\ display[e] # "none" /\ opacity[e] # "0"}
    IN  IF Cardinality(visibleEvents) = 0 THEN "none" ELSE "block"

\* a section-visibility timer fires
SectionTimerFire ==
    /\ sectionTimers > 0
    /\ elapsed(sectionDue)
    /\ sectionTimers' = sectionTimers - 1
    /\ sectionDue' = fired(sectionDue)
    /\ sectionDisplay' = [s \in timelineSections |-> updateSectionVisibility(s)]
    /\ Did(<<"sectionTimer">>)
    /\ UNCHANGED <<ctrlVars, show, filterActive, subActive, display, opacity, nodes,
                   hideTimers, hideDue>>

\* ---------------------------------------------------------------- numbers
\* A JavaScript number that is the quotient of two integers, kept exactly:
\* a fraction n/d in lowest terms with d > 0, or NaN, Infinity, -Infinity.
\* (Rounding of the double quotient is not modelled.)
NaN == [k |-> "NaN"]
PosInf == [k |-> "Infinity"]
NegInf == [k |-> "-Infinity"]
Unset == [k |-> "unset"]

Abs(x) == IF x < 0 THEN -x ELSE x

RECURSIVE gcd(_, _)
gcd(a, b) == IF b = 0 THEN a ELSE gcd(b, a % b)

Num(n, d) ==
    LET g == gcd(Abs(n), d)
    IN  [k |-> "num", n |-> n \div g, d |-> d \div g]

\* a / b for integers a and b
div(a, b) ==
    IF b = 0 THEN (IF a = 0 THEN NaN ELSE IF a > 0 THEN PosInf ELSE NegInf)
    ELSE IF b > 0 THEN Num(a, b)
    ELSE Num(-a, -b)

\* x * 100
times100(x) == IF x.k = "num" THEN Num(100 * x.n, x.d) ELSE x

\* Math.max(0, x)
max0(x) ==
    IF x.k = "NaN" THEN NaN
    ELSE IF x.k = "Infinity" THEN PosInf
    ELSE IF x.k = "-Infinity" THEN Num(0, 1)
    ELSE IF x.n < 0 THEN Num(0, 1) ELSE x

\* Math.min(100, x)
min100(x) ==
    IF x.k = "NaN" THEN NaN
    ELSE IF x.k = "Infinity" THEN Num(100, 1)
    ELSE IF x.k = "-Infinity" THEN NegInf
    ELSE IF x.n > 100 * x.d THEN Num(100, 1) ELSE x

\* ---------------------------------------------------------------- scroll tracker
\* updateProgress of the non-debounced tracker: no clamp
computeScrollPercentUnclamped(scrollTop, docHeight) ==
    times100(div(scrollTop, docHeight))

\* updateProgress: the number computed from the scroll position
computeScrollPercent(scrollTop, docHeight) ==
    min100(max0(times100(div(scrollTop, docHeight))))

\* style.width = scrollPercent + '%': "NaN%" is no CSS value and leaves the
\* declaration as it was
setWidth(old, percent) == IF percent.k = "NaN" THEN old ELSE percent

\* the positions window.pageYOffset can take
ScrollRange ==
    LET docHeight == scrollHeight - innerHeight
    IN  (0 - Overscroll)..((IF docHeight > 0 THEN docHeight ELSE 0) + Overscroll)

\* what the history keeps of the tracker's state
ScrollSnapshot ==
    [ticking |-> ticking, frame |-> animationFrameId, revertTimers |-> revertTimers,
     animated |-> animated, transform |-> transform]

\* a step of the tracker, recorded where the history is kept
DidScroll(op) ==
    /\ IF lastOp = <<"off">> THEN UNCHANGED histVars
       ELSE lastOp' = op /\ pre' = ScrollSnapshot /\ UNCHANGED passRead
    /\ UNCHANGED <<pageVars, ctrlVars, domVars, fnVars, now>>

\* a requestTick that asks for a frame on every scroll notification
requestTickUnthrottled ==
    [animationFrameId |-> TRUE,
     staleFrames |-> staleFrames + (IF animationFrameId THEN 1 ELSE 0),
     ticking |-> TRUE]

\* requestTick: the pending requests and the flag it leaves
requestTick ==
    IF ~ticking
    THEN [animationFrameId |-> TRUE,
          staleFrames |-> staleFrames + (IF animationFrameId THEN 1 ELSE 0),
          ticking |-> TRUE]
    ELSE [animationFrameId |-> animationFrameId, staleFrames |-> staleFrames,
          ticking |-> ticking]

\* the two 'scroll' listeners of the window, in the order they were added:
\* requestTick, then the listener that tracks the scroll state
ScrollEvent(y) ==
    /\ requestTick.staleFrames <= MaxStale
    /\ pageYOffset' = y
    /\ animationFrameId' = requestTick.animationFrameId
    /\ staleFrames' = requestTick.staleFrames
    /\ ticking' = requestTick.ticking
    /\ isScrolling' = TRUE
    /\ scrollTimeout' = TRUE
    /\ UNCHANGED <<scrollHeight, innerHeight, scrollPercent, progressWidth, tornDown>>
    /\ UNCHANGED markerVars
    /\ DidScroll(<<"scroll">>)

\* the animation frame runs updateProgress: the request made last or an earlier one
UpdateProgress ==
    /\ \E last \in BOOLEAN :
        /\ IF last THEN animationFrameId ELSE staleFrames > 0
        /\ animationFrameId' = IF last THEN FALSE ELSE animationFrameId
        /\ staleFrames' = IF last THEN staleFrames ELSE staleFrames - 1
    /\ IF ~isScrolling
       THEN UNCHANGED <<scrollPercent, progressWidth, ticking>>
       ELSE /\ scrollPercent' =
                    computeScrollPercent(pageYOffset, scrollHeight - innerHeight)
            /\ progressWidth' = setWidth(progressWidth, scrollPercent')
            /\ ticking' = FALSE
    /\ UNCHANGED <<scrollHeight, innerHeight, pageYOffset, isScrolling, scrollTimeout,
                   tornDown>>
    /\ UNCHANGED markerVars
    /\ DidScroll(<<"updateProgress">>)

\* the 150 ms timer of the scroll-state listener fires
ScrollTimeoutFire ==
    /\ scrollTimeout
    /\ scrollTimeout' = FALSE
    /\ isScrolling' = FALSE
    /\ UNCHANGED <<scrollHeight, innerHeight, pageYOffset, ticking, animationFrameId,
                   scrollPercent, progressWidth, staleFrames, tornDown>>
    /\ UNCHANGED markerVars
    /\ DidScroll(<<"scrollTimeout">>)

\* an animateMarker that does not test the class animated
animateMarkerUnguarded(s) ==
    IF s \in markerDots
    THEN [animated |-> animated \cup {s},
          transform |-> [transform EXCEPT ![s] = "scale(1.2)"],
          revertTimers |-> [revertTimers EXCEPT ![s] = @ + 1]]
    ELSE [animated |-> animated, transform |-> transform,
          revertTimers |-> revertTimers]

\* animateMarker on section s: the classes, styles and timers it leaves
animateMarker(s) ==
    IF s \in markerDots /\ s \notin animated
    THEN [animated |-> animated \cup {s},
          transform |-> [transform EXCEPT ![s] = "scale(1.2)"],
          revertTimers |-> [revertTimers EXCEPT ![s] = @ + 1]]
    ELSE [animated |-> animated, transform |-> transform,
          revertTimers |-> revertTimers]

\* the IntersectionObserver callback with one entry for section s; hit is
\* entry.isIntersecting && entry.intersectionRatio > 0.1
Intersect(s, hit) ==
    /\ animateMarker(s).revertTimers[s] <= MaxRevert
    /\ IF hit
       THEN /\ visible' = visible \cup {s}
            /\ animated' = animateMarker(s).animated
            /\ transform' = animateMarker(s).transform
            /\ revertTimers' = animateMarker(s).revertTimers
       ELSE UNCHANGED markerVars
    /\ UNCHANGED scrollVars
    /\ DidScroll(<<"intersect", s, hit>>)

\* a revert timer of the marker of section s fires
RevertTimerFire(s) ==
    /\ revertTimers[s] > 0
    /\ revertTimers' = [revertTimers EXCEPT ![s] = @ - 1]
    /\ transform' = [transform EXCEPT ![s] = "scale(1)"]
    /\ animated' = animated \ {s}
    /\ UNCHANGED <<visible, scrollVars>>
    /\ DidScroll(<<"revert", s>>)

\* destroy(), called by the beforeunload listener
Destroy ==
    /\ ~tornDown
    /\ tornDown' = TRUE
    /\ animationFrameId' = FALSE          \* cancelAnimationFrame(this.animationFrameId)
    /\ scrollTimeout' = FALSE             \* clearTimeout(this.scrollTimeout)
    /\ UNCHANGED <<scrollHeight, innerHeight, pageYOffset, isScrolling, ticking,
                   scrollPercent, progressWidth, staleFrames>>
    /\ UNCHANGED markerVars
    /\ DidScroll(<<"destroy">>)

\* the constructor of TimelineScroll on a window and document of these heights
InitTimelineScroll(view, page) ==
    /\ innerHeight = view
    /\ scrollHeight = page
    /\ pageYOffset = 0
    /\ isScrolling = FALSE
    /\ ticking = FALSE
    /\ animationFrameId = FALSE
    /\ staleFrames = 0
    /\ tornDown = FALSE
    /\ scrollTimeout = FALSE
    /\ scrollPercent = Unset
    /\ progressWidth = Unset

\* the markers of the sections the tracker observes; dots are the sections that
\* hold a .marker-dot
InitMarkers(dots) ==
    /\ markerDots = dots
    /\ visible = {}
    /\ animated = {}
    /\ transform = [s \in timelineSections |-> ""]
    /\ revertTimers = [s \in timelineSections |-> 0]

NextScroll ==
    \/ \E y \in ScrollRange : ScrollEvent(y)
    \/ UpdateProgress
    \/ ScrollTimeoutFire
    \/ \E s \in timelineSections, hit \in BOOLEAN : Intersect(s, hit)
    \/ \E s \in timelineSections : RevertTimerFire(s)
    \/ Destroy

\* ---------------------------------------------------------------- one call
\* no matching function is being called
NoCall == fnArgs = [fn |-> "none"] /\ fnResult = << >>

\* the event cards matchesFilter is called on, and the filter states it reads
FilterCalls ==
    [fn : {"matchesFilter"},
     category : {"founder", "regulation", "milestone"},
     subcategory : SubCodes \cup {UNDEFINED},
     filter : {"all", "founder", "regulation"},
     sub : SubCodes \cup {NULL}]

\* the event cards matchesSearch is called on, and the search terms it reads
SearchCalls ==
    [fn : {"matchesSearch"},
     title : {<< >>, <<"A">>, <<"a", "B">>},
     description : {<< >>, <<"b">>},
     year : {<<"1">>},
     categoryTags : {<< >>, << <<"f">> >>, << <<"f">>, <<"B">> >>},
     subcategoryTags : {<< >>, << <<"S">> >>},
     term : {<< >>, <<"a">>, <<"A", "b">>, <<"b", " ", "1">>, <<"B", " ", "b">>,
             <<" ", " ">>, <<"s">>, <<"x">>, <<"1", " ", "F">>}]

\* this.matchesFilter(event) with the Map entry and fields of the call
CallMatchesFilter ==
    /\ fnArgs.fn = "matchesFilter"
    /\ fnResult = << >>
    /\ fnResult' = << matchesFilter([text |-> << >>, category |-> fnArgs.category,
                                     subcategory |-> fnArgs.subcategory],
                                    fnArgs.filter, fnArgs.sub) >>
    /\ UNCHANGED <<fnArgs, pageVars, ctrlVars, domVars, histVars, scrollVars, markerVars,
                   now>>

\* preloadEventData on the card of the call, then this.matchesSearch(event)
CallMatchesSearch ==
    /\ fnArgs.fn = "matchesSearch"
    /\ fnResult = << >>
    /\ fnResult' = << matchesSearch(
                        preloadEventData(
                            [title |-> fnArgs.title,
                             description |-> fnArgs.description,
                             year |-> fnArgs.year,
                             categoryTags |-> fnArgs.categoryTags,
                             subcategoryTags |-> fnArgs.subcategoryTags,
                             category |-> "founder", subcategory |-> UNDEFINED]),
                        fnArgs.term) >>
    /\ UNCHANGED <<fnArgs, pageVars, ctrlVars, domVars, histVars, scrollVars, markerVars,
                   now>>

NextMatch == CallMatchesFilter \/ CallMatchesSearch

\* the title and description highlightSearchTerm is called on, and the terms
HighlightCalls ==
    [fn : {"highlight"},
     title : {<< >>, <<"A", "b">>, <<"a", "A">>, <<"x">>,
              <<"a", "<", "b", ">", "A">>, <<"<", "b", "A">>, <<"A", "<", "A">>,
              <<"a", " ", "<", " ", "b">>},
     description : {<<"s">>, <<"a", ">", "b">>},
     term : {<<"A">>, <<"b">>, <<"a", "b">>}]

\* the pass on a visible event with a search term: highlightSearchTerm
CallHighlightSearchTerm ==
    /\ fnArgs.fn = "highlight"
    /\ fnResult = << >>
    /\ fnResult' = << highlightSearchTerm(
                        [title |-> TextNodes(fnArgs.title),
                         description |-> TextNodes(fnArgs.description)],
                        fnArgs.term) >>
    /\ UNCHANGED <<fnArgs, pageVars, ctrlVars, domVars, histVars, scrollVars, markerVars,
                   now>>

\* the next pass on the event, with the search term cleared: removeHighlights
CallRemoveHighlights ==
    /\ fnArgs.fn = "highlight"
    /\ Len(fnResult) = 1
    /\ fnResult' = fnResult \o
                    << [title |-> removeHighlights(fnResult[1].title),
                        description |-> removeHighlights(fnResult[1].description)] >>
    /\ UNCHANGED <<fnArgs, pageVars, ctrlVars, domVars, histVars, scrollVars, markerVars,
                   now>>

NextHighlight == CallHighlightSearchTerm \/ CallRemoveHighlights

\* ---------------------------------------------------------------- controller
Next ==
    \/ \E v \in keys : InputEvent(v)
    \/ EnterKey
    \/ SearchButtonClick
    \/ ClearButtonClick
    \/ \E f \in filterButtons : FilterClick(f)
    \/ \E s \in subcategoryButtons : SubcategoryClick(s)
    \/ OutsideClick
    \/ DebouncedSearchFire
    \/ DebouncedFilterFire
    \/ AnimationFrame
    \/ \E e \in events : HideTimerFire(e)
    \/ SectionTimerFire

\* the controller on the page with the three event cards, the three filter buttons
\* it handles and one subcategory button; no history kept
Init ==
    /\ InitController(Events, {"all", "founder", "regulation"}, {"seed"}, "off")
    /\ InitNodes(TRUE, SubBearing)
    /\ InitTimelineScroll(1, 1)
    /\ InitMarkers({})
    /\ NoCall
    /\ InitScript("TimelineController", Terms)
    /\ InitClock(FALSE)

Spec == Init /\ [][Next]_vars

\* the controller on a page with one event card and every button, with the history
\* of each step
InitUI ==
    /\ InitController({"e1"}, FilterCodes, SubCodes, "steps")
    /\ InitNodes(TRUE, SubBearing)
    /\ InitTimelineScroll(1, 1)
    /\ InitMarkers({})
    /\ NoCall
    /\ InitScript("TimelineController", Terms)
    /\ InitClock(FALSE)

SpecUI == InitUI /\ [][Next]_vars

\* the controller on pages that may lack the search input, the filter button 'all'
\* or the picker container of a category (the search button and the clear button
\* are there); one event card, no history kept
InitMissing ==
    /\ \E fbs \in {FilterCodes, FilterCodes \ {"all"}} :
            InitController({"e1"}, fbs, SubCodes, "off")
    /\ \E input \in BOOLEAN, cs \in SUBSET SubBearing : InitNodes(input, cs)
    /\ InitTimelineScroll(1, 1)
    /\ InitMarkers({})
    /\ NoCall
    /\ InitScript("TimelineController", Terms)
    /\ InitClock(FALSE)

SpecMissing == InitMissing /\ [][Next]_vars

\* the controller on a page with the event cards e1 and e2, the filter buttons
\* 'all' and 'founder' and the subcategory button 'seed', with the history of each
\* step and of what the last pass read
InitPass ==
    /\ InitController({"e1", "e2"}, {"all", "founder"}, {"seed"}, "passes")
    /\ InitNodes(TRUE, SubBearing)
    /\ InitTimelineScroll(1, 1)
    /\ InitMarkers({})
    /\ NoCall
    /\ InitScript("TimelineController", Terms)
    /\ InitClock(FALSE)

SpecPass == InitPass /\ [][Next]_vars

\* the step of the clock, in milliseconds: every delay is a multiple of it
Quantum == gcd(FadeDelay, SectionDelay)

\* time passes: the clock advances by one step, unless a pending timer is due
Tick ==
    /\ timed
    /\ now + Quantum <= MaxTime
    /\ \A e \in events : IF hideDue[e] = << >> THEN TRUE ELSE Head(hideDue[e]) > now
    /\ IF sectionDue = << >> THEN TRUE ELSE Head(sectionDue) > now
    /\ now' = now + Quantum
    /\ UNCHANGED <<pageVars, ctrlVars, domVars, histVars, scrollVars, markerVars, fnVars>>

NextTimed == Next \/ Tick

\* the controller of InitPass, without history, run against the clock: a hideEvent
\* timer fires FadeDelay after the pass that started it, a section timer
\* SectionDelay after its pass
InitTimed ==
    /\ InitController({"e1", "e2"}, {"all", "founder"}, {"seed"}, "off")
    /\ InitNodes(TRUE, SubBearing)
    /\ InitTimelineScroll(1, 1)
    /\ InitMarkers({})
    /\ NoCall
    /\ InitScript("TimelineController", Terms)
    /\ InitClock(TRUE)

SpecTimed == InitTimed /\ [][NextTimed]_vars

\* the controller on the second page: the event cards e4, whose title holds a
\* bracket, and e5, the filter buttons 'all' and 'founder', the subcategory
\* button 'seed', and a user who also types a bracket
InitBracket ==
    /\ InitController(BracketEvents, {"all", "founder"}, {"seed"}, "off")
    /\ InitNodes(TRUE, SubBearing)
    /\ InitTimelineScroll(1, 1)
    /\ InitMarkers({})
    /\ NoCall
    /\ InitScript("TimelineController", BracketTerms)
    /\ InitClock(FALSE)

SpecBracket == InitBracket /\ [][Next]_vars

\* ------------------------------------------------ the non-debounced variants
\* TimelineFilter (unnamed/part_000) filters by category alone; the second
\* TimelineController of script.js (lines 482-717) runs applyAllFilters inside the
\* listener, without debounce and without requestAnimationFrame. Every pass of
\* either starts the same two kinds of timers.

\* filterEvents of TimelineFilter: shouldShow for event e
filterEventsShows(e, category, subcategory) ==
    IF category = "all" THEN TRUE
    ELSE IF eventData[e].category = category
         THEN (IF subcategory # NULL THEN eventData[e].subcategory = subcategory
               ELSE TRUE)
         ELSE FALSE

\* filterEvents(category, subcategory): the events shown at once, the others
\* faded with one timer each, and one section timer
filterEvents(category, subcategory) ==
    /\ \A e \in events :
            ~filterEventsShows(e, category, subcategory) => hideTimers[e] < MaxHide
    /\ sectionTimers < MaxSec
    /\ display' = [e \in events |->
                        IF filterEventsShows(e, category, subcategory) THEN "flex"
                        ELSE display[e]]
    /\ opacity' = [e \in events |->
                        IF filterEventsShows(e, category, subcategory) THEN "1" ELSE "0"]
    /\ hideTimers' = [e \in events |->
                        IF filterEventsShows(e, category, subcategory) THEN hideTimers[e]
                        ELSE hideTimers[e] + 1]
    /\ hideDue' = [e \in events |->
                        IF filterEventsShows(e, category, subcategory) THEN hideDue[e]
                        ELSE setTimeout(hideDue[e], 1, FadeDelay)]
    /\ sectionTimers' = sectionTimers + 1
    /\ sectionDue' = setTimeout(sectionDue, 1, SectionDelaySync)

\* handleAllFilter of TimelineFilter, with showAllEvents: a click on 'all'
handleAllFilter ==
    /\ script = "TimelineFilter"
    /\ "all" \in filterButtons
    /\ currentFilter' = "all"
    /\ currentSubcategory' = NULL
    /\ filterActive' = {"all"}
    /\ subActive' = {}
    /\ show' = hideAllSubcategories
    /\ display' = [e \in events |-> "flex"]
    /\ opacity' = [e \in events |-> "1"]
    /\ sectionDisplay' = [s \in timelineSections |-> "block"]
    /\ Did(<<"filter", "all">>)
    /\ UNCHANGED <<currentSearchTerm, inputValue, searchTimeout, filterTimeout,
                   rafPending, staleSearchTimers, staleFilterTimers, raised, nodes,
                   hideTimers, sectionTimers, hideDue, sectionDue>>

\* handleMainFilter of TimelineFilter: a click on the button of category f
handleMainFilter(f) ==
    /\ script = "TimelineFilter"
    /\ f \in filterButtons \cap SubBearing
    /\ currentFilter' = f
    /\ currentSubcategory' = NULL
    /\ filterActive' = {f}
    /\ subActive' = {}
    /\ show' = hideAllSubcategories \cup ({f} \cap containers)
    /\ filterEvents(f, NULL)
    /\ Did(<<"filter", f>>)
    /\ UNCHANGED <<currentSearchTerm, inputValue, searchTimeout, filterTimeout,
                   rafPending, staleSearchTimers, staleFilterTimers, raised, nodes,
                   sectionDisplay>>

\* handleSubcategoryFilter of TimelineFilter: a click on subcategory button s
handleSubcategoryFilter(s) ==
    /\ script = "TimelineFilter"
    /\ s \in subcategoryButtons
    /\ Owner(s) \in show
    /\ currentSubcategory' = s
    /\ subActive' = {s}
    /\ filterEvents(currentFilter, s)
    /\ Did(<<"subcategory">>)
    /\ UNCHANGED <<currentFilter, currentSearchTerm, inputValue, searchTimeout,
                   filterTimeout, rafPending, staleSearchTimers, staleFilterTimers,
                   raised, nodes, show, filterActive, sectionDisplay>>

\* the second applyAllFilters: it shows event e when the term is v
applyAllFiltersShows(e, v) ==
    /\ matchesSearch(eventData[e], v)
    /\ matchesFilter(eventData[e], currentFilter, currentSubcategory)

\* the events at which highlightSearchTerm throws in the second applyAllFilters
ThrowersSync(v) ==
    IF v # << >> /\ RegExpThrows(v)
    THEN {e \in events : applyAllFiltersShows(e, v)}
    ELSE {}

\* forEach of the second applyAllFilters reaches event e
reachedSync(e, v) == \A t \in ThrowersSync(v) : Position(e) <= Position(t)

\* 'input' listener of the second TimelineController: the value becomes v and
\* applyAllFilters runs inside the listener
inputSync(v) ==
    /\ script = "TimelineControllerSync"
    /\ searchInput
    /\ v # inputValue
    /\ \A e \in events : ~applyAllFiltersShows(e, v) => hideTimers[e] < MaxHide
    /\ sectionTimers < MaxSec
    /\ inputValue' = v
    /\ currentSearchTerm' = v
    /\ display' = [e \in events |->
                        IF reachedSync(e, v) /\ applyAllFiltersShows(e, v) THEN "flex"
                        ELSE display[e]]
    /\ opacity' = [e \in events |->
                        IF ~reachedSync(e, v) THEN opacity[e]
                        ELSE IF applyAllFiltersShows(e, v) THEN "1" ELSE "0"]
    /\ nodes' = [e \in events |->
                        IF ~(reachedSync(e, v) /\ applyAllFiltersShows(e, v)) THEN nodes[e]
                        ELSE IF v # << >> THEN highlightSearchTerm(nodes[e], v)
                        ELSE [title |-> removeHighlights(nodes[e].title),
                              description |-> removeHighlights(nodes[e].description)]]
    /\ hideTimers' = [e \in events |->
                        IF reachedSync(e, v) /\ ~applyAllFiltersShows(e, v)
                        THEN hideTimers[e] + 1 ELSE hideTimers[e]]
    /\ hideDue' = [e \in events |->
                        IF reachedSync(e, v) /\ ~applyAllFiltersShows(e, v)
                        THEN setTimeout(hideDue[e], 1, FadeDelay) ELSE hideDue[e]]
    /\ sectionTimers' = IF ThrowersSync(v) = {} THEN sectionTimers + 1 ELSE sectionTimers
    /\ sectionDue' = IF ThrowersSync(v) = {}
                     THEN setTimeout(sectionDue, 1, SectionDelaySync) ELSE sectionDue
    /\ raised' = (raised \/ ThrowersSync(v) # {})
    /\ Did(<<"input">>)
    /\ UNCHANGED <<currentFilter, currentSubcategory, searchTimeout, filterTimeout,
                   rafPending, staleSearchTimers, staleFilterTimers, show,
                   filterActive, subActive, sectionDisplay>>

\* a callback of the fade timer that tests the opacity first, as hideEvent's does
hideCallbackSyncGuarded(e) == IF opacity[e] = "0" THEN "none" ELSE display[e]

\* the callback of the fade timer of both variants: the display it leaves on e
hideCallbackSync(e) == "none"

\* a fade timer of event e fires in a non-debounced variant
HideTimerFireSync(e) ==
    /\ script # "TimelineController"
    /\ hideTimers[e] > 0
    /\ elapsed(hideDue[e])
    /\ hideTimers' = [hideTimers EXCEPT ![e] = @ - 1]
    /\ hideDue' = [hideDue EXCEPT ![e] = fired(@)]
    /\ display' = [display EXCEPT ![e] = hideCallbackSync(e)]
    /\ Did(<<"hideTimer">>)
    /\ UNCHANGED <<ctrlVars, show, filterActive, subActive, opacity, nodes,
                   sectionDisplay, sectionTimers, sectionDue>>

\* a section-visibility timer fires in a non-debounced variant
SectionTimerFireSync ==
    /\ script # "TimelineController"
    /\ sectionTimers > 0
    /\ elapsed(sectionDue)
    /\ sectionTimers' = sectionTimers - 1
    /\ sectionDue' = fired(sectionDue)
    /\ sectionDisplay' = [s \in timelineSections |-> updateSectionVisibility(s)]
    /\ Did(<<"sectionTimer">>)
    /\ UNCHANGED <<ctrlVars, show, filterActive, subActive, display, opacity, nodes,
                   hideTimers, hideDue>>

NextSync ==
    \/ handleAllFilter
    \/ \E f \in filterButtons : handleMainFilter(f)
    \/ \E s \in subcategoryButtons : handleSubcategoryFilter(s)
    \/ \E v \in keys : inputSync(v)
    \/ \E e \in events : HideTimerFireSync(e)
    \/ SectionTimerFireSync

\* a page that runs one of the two non-debounced scripts, with the event cards
\* of Init and the history of each step
InitSync ==
    /\ InitController(Events, {"all", "founder", "regulation"}, {"seed"}, "steps")
    /\ InitNodes(TRUE, SubBearing)
    /\ InitTimelineScroll(1, 1)
    /\ InitMarkers({})
    /\ NoCall
    /\ \E class \in {"TimelineFilter", "TimelineControllerSync"} :
            InitScript(class, Terms)
    /\ InitClock(FALSE)

SpecSync == InitSync /\ [][NextSync]_vars

\* the scroll tracker on windows and documents of every height in the bounds; of
\* the two sections of the page only s1 holds a marker; the history of each step
InitScroll ==
    /\ InitController(Events, {}, {}, "steps")
    /\ InitNodes(TRUE, SubBearing)
    /\ \E view \in 1..MaxView, page \in 1..MaxPage : InitTimelineScroll(view, page)
    /\ InitMarkers({"s1"})
    /\ NoCall
    /\ InitScript("TimelineController", Terms)
    /\ InitClock(FALSE)

SpecScroll == InitScroll /\ [][NextScroll]_vars

\* one call of matchesFilter or matchesSearch on every card and state in the bounds
InitMatch ==
    /\ InitController({}, {}, {}, "off")
    /\ InitNodes(TRUE, SubBearing)
    /\ InitTimelineScroll(1, 1)
    /\ InitMarkers({})
    /\ fnArgs \in FilterCalls \cup SearchCalls
    /\ fnResult = << >>
    /\ InitScript("TimelineController", Terms)
    /\ InitClock(FALSE)

SpecMatch == InitMatch /\ [][NextMatch]_vars

\* highlightSearchTerm and then removeHighlights on every title, description and
\* term in the bounds
InitHighlight ==
    /\ InitController({}, {}, {}, "off")
    /\ InitNodes(TRUE, SubBearing)
    /\ InitTimelineScroll(1, 1)
    /\ InitMarkers({})
    /\ fnArgs \in HighlightCalls
    /\ fnResult = << >>
    /\ InitScript("TimelineController", Terms)
    /\ InitClock(FALSE)

SpecHighlight == InitHighlight /\ [][NextHighlight]_vars

\* ================================================================ properties
\* the step is the animation frame running the queued passes
PassStep == rafPending > 0 /\ rafPending' = 0

\* C1: in every pass, an event that matches the search and the filter read by
\* the pass is shown (display flex, opacity 1, no timer started); every other
\* event, also one matching only one of the two, goes to hideEvent (opacity 0
\* and one fade-then-hide timer per pass started, display left as it was).
C1_PassShowsExactlyTheMatches ==
    [][PassStep =>
        \A e \in events :
            IF /\ matchesSearch(eventData[e], currentSearchTerm)
               /\ matchesFilter(eventData[e], currentFilter, currentSubcategory)
            THEN /\ display'[e] = "flex" /\ opacity'[e] = "1"
                 /\ hideTimers'[e] = hideTimers[e]
            ELSE /\ opacity'[e] = "0" /\ display'[e] = display[e]
                 /\ hideTimers'[e] = hideTimers[e] + rafPending]_vars

\* a pass has run under filter founder and term A: e1 matches both and is shown,
\* e2 matches the filter only and e3 the search only, and both are fading
C1_Witness ==
    /\ events = Events
    /\ currentFilter = "founder" /\ currentSubcategory = NULL
    /\ currentSearchTerm = <<"A">>
    /\ rafPending = 0 /\ ~searchTimeout /\ ~filterTimeout
    /\ display["e1"] = "flex" /\ opacity["e1"] = "1"
    /\ matchesFilter(eventData["e2"], currentFilter, currentSubcategory)
    /\ ~matchesSearch(eventData["e2"], currentSearchTerm)
    /\ opacity["e2"] = "0" /\ hideTimers["e2"] = 1
    /\ ~matchesFilter(eventData["e3"], currentFilter, currentSubcategory)
    /\ matchesSearch(eventData["e3"], currentSearchTerm)
    /\ opacity["e3"] = "0" /\ hideTimers["e3"] = 1

\* C2: the subcategory is non-null only while the filter is the category that
\* owns it; in particular never while the filter is 'all'.
C2_SubcategoryBelongsToFilter ==
    currentSubcategory # NULL => currentFilter = Owner(currentSubcategory)

\* the last step was a click on the filter button 'all'
ClickedAll == lastOp = <<"filter", "all">>

\* the last step was a click on the filter button of one subcategory-bearing
\* category while the other one was the filter
SwitchedCategory ==
    /\ Len(lastOp) = 2 /\ lastOp[1] = "filter"
    /\ lastOp[2] \in SubBearing
    /\ pre.filter \in SubBearing /\ pre.filter # lastOp[2]

\* C3 as stated: after a click on 'all' and after a switch between the two
\* subcategory-bearing categories the subcategory is null and no picker is shown.
C3_NoPickerAfterAllOrSwitch ==
    (ClickedAll \/ SwitchedCategory) => (currentSubcategory = NULL /\ show = {})

\* C3 amended: after a click on 'all' the subcategory is null and no picker is
\* shown; after a switch the subcategory is null and the picker of the newly
\* selected category, and only that one, is shown.
C3_PickersAfterAllOrSwitch ==
    /\ ClickedAll => (currentFilter = "all" /\ currentSubcategory = NULL /\ show = {})
    /\ SwitchedCategory =>
        (currentFilter = lastOp[2] /\ currentSubcategory = NULL /\ show = {lastOp[2]})

\* founder with subcategory seed and its picker open, then a click on regulation
C3_Witness ==
    /\ SwitchedCategory
    /\ lastOp[2] = "regulation"
    /\ pre.filter = "founder" /\ pre.sub = "seed" /\ pre.show = {"founder"}

\* the last step was a click on the filter button of the category that was
\* already the filter
SameFilterClick ==
    /\ Len(lastOp) = 2 /\ lastOp[1] = "filter"
    /\ lastOp[2] \in SubBearing
    /\ pre.filter = lastOp[2]

\* the events matching the filter in the state the last step started from
MatchedBefore == {e \in events : matchesFilter(eventData[e], pre.filter, pre.sub)}

\* the events matching the filter now
MatchedNow ==
    {e \in events : matchesFilter(eventData[e], currentFilter, currentSubcategory)}

\* C4 as stated: a click on the active category's filter button only toggles that
\* category's picker; filter, subcategory and the matching events stay the same.
C4_SameFilterClickOnlyToggles ==
    SameFilterClick =>
        /\ show = (IF lastOp[2] \in pre.show THEN pre.show \ {lastOp[2]}
                   ELSE pre.show \cup {lastOp[2]})
        /\ currentFilter = pre.filter
        /\ currentSubcategory = pre.sub
        /\ MatchedNow = MatchedBefore

\* C4 amended: the click leaves the filter unchanged; where the picker was hidden
\* it shows it and leaves the subcategory and the matching events unchanged; where
\* the picker was shown it hides every picker and resets the subcategory to null,
\* so that the matching events can only grow (to all events of the category).
C4_SameFilterClickTogglesOrResets ==
    SameFilterClick =>
        /\ currentFilter = pre.filter
        /\ IF lastOp[2] \in pre.show
           THEN /\ show = {}
                /\ currentSubcategory = NULL
                /\ MatchedBefore \subseteq MatchedNow
                /\ MatchedNow = {e \in events : eventData[e].category = currentFilter}
           ELSE /\ show = pre.show \cup {lastOp[2]}
                /\ currentSubcategory = pre.sub
                /\ MatchedNow = MatchedBefore

\* the picker of founder was closed by an outside click with subcategory exit
\* selected, and the founder button was clicked again: event e1 (founder, seed)
\* still does not match
C4_Witness ==
    /\ SameFilterClick
    /\ lastOp[2] = "founder"
    /\ pre.sub = "exit" /\ pre.show = {}
    /\ currentSubcategory = "exit" /\ show = {"founder"}
    /\ "e1" \notin MatchedNow

\* C5: matchesFilter is true when the filter is 'all', false when the event's
\* category differs from the filter, and otherwise true iff no subcategory is
\* active or the event's subcategory equals it; under filter founder and
\* subcategory seed exactly the events of category founder and subcategory seed
\* match.
C5_MatchesFilterDecision ==
    (fnArgs.fn = "matchesFilter" /\ fnResult # << >>) =>
        /\ fnResult[1] =
            (\/ fnArgs.filter = "all"
             \/ /\ fnArgs.category = fnArgs.filter
                /\ (fnArgs.sub = NULL \/ fnArgs.subcategory = fnArgs.sub))
        /\ (fnArgs.filter = "founder" /\ fnArgs.sub = "seed") =>
                fnResult[1] = (fnArgs.category = "founder" /\ fnArgs.subcategory = "seed")

\* matchesFilter was called under founder and seed on an event of another
\* subcategory of founder and returned false
C5_Witness ==
    /\ fnArgs.fn = "matchesFilter"
    /\ fnArgs.filter = "founder" /\ fnArgs.sub = "seed"
    /\ fnArgs.category = "founder" /\ fnArgs.subcategory = "exit"
    /\ fnResult = << FALSE >>

\* the text the claim has preloadEventData cache for the card of the call
CachedText ==
    toLowerCase(fnArgs.title \o SP \o fnArgs.description \o SP \o fnArgs.year \o SP
                \o join(fnArgs.categoryTags, SP) \o SP
                \o join(fnArgs.subcategoryTags, SP))

\* C6: matchesSearch is true for every event when the term is empty; otherwise it
\* is true iff the lower-cased term occurs somewhere in the cached text as one
\* contiguous piece.
C6_MatchesSearchIsSubstring ==
    (fnArgs.fn = "matchesSearch" /\ fnResult # << >>) =>
        fnResult[1] =
            (\/ fnArgs.term = << >>
             \/ \E i \in 0..Len(CachedText) :
                    /\ i + Len(fnArgs.term) <= Len(CachedText)
                    /\ SubSeq(CachedText, i + 1, i + Len(fnArgs.term))
                            = toLowerCase(fnArgs.term))

\* the term "1 F" matched: it runs from the year into the first category tag and
\* differs from the text in case
C6_Witness ==
    /\ fnArgs.fn = "matchesSearch"
    /\ fnArgs.term = <<"1", " ", "F">>
    /\ fnResult = << TRUE >>

\* some pass has run: a pass leaves opacity 1 or 0 on every event it reaches
PassHasRun == \E e \in events : opacity[e] # ""

\* C7: once every pass that ran has had its section timer fire (every pass ran
\* to its end and started one: no callback has thrown), a section is displayed
\* (block) iff one of its events is displayed and not faded, and is hidden (none)
\* otherwise.
C7_SectionsFollowTheirEvents ==
    (PassHasRun /\ sectionTimers = 0 /\ ~raised) =>
        \A s \in timelineSections :
            sectionDisplay[s] =
                IF \E e \in events :
                        SectionOf(e) = s /\ display[e] # "none" /\ opacity[e] # "0"
                THEN "block" ELSE "none"

\* under filter regulation the only event of section s1 is filtered out and s1
\* is hidden, while s2 keeps a visible event and is displayed
C7_Witness ==
    /\ events = Events
    /\ currentFilter = "regulation"
    /\ rafPending = 0 /\ sectionTimers = 0
    /\ opacity["e1"] = "0"
    /\ sectionDisplay["s1"] = "none" /\ sectionDisplay["s2"] = "block"

\* C8: the clear button leaves the search term empty, the filter 'all', the
\* subcategory null, exactly the filter button 'all' and no subcategory button
\* active, and one more pass queued.
C8_ClearResets ==
    lastOp = <<"clear">> =>
        /\ currentSearchTerm = << >> /\ inputValue = << >>
        /\ currentFilter = "all"
        /\ currentSubcategory = NULL
        /\ filterActive = {"all"}
        /\ subActive = {}
        /\ rafPending = pre.raf + 1

\* clear was clicked with a term typed, filter founder and subcategory seed
C8_Witness ==
    /\ lastOp = <<"clear">>
    /\ pre.term = <<"A">> /\ pre.filter = "founder" /\ pre.sub = "seed"

\* C9: a click outside the filter group and the search container leaves no
\* picker shown and leaves filter, subcategory, search term and every event's
\* display and opacity as they were.
C9_OutsideClickOnlyCollapses ==
    lastOp = <<"outside">> =>
        /\ show = {}
        /\ currentFilter = pre.filter
        /\ currentSubcategory = pre.sub
        /\ currentSearchTerm = pre.term
        /\ display = pre.display
        /\ opacity = pre.opacity
        /\ rafPending = pre.raf

\* an outside click with a picker open and a subcategory selected
C9_Witness ==
    /\ lastOp = <<"outside">>
    /\ pre.show = {"founder"} /\ pre.sub = "seed" /\ pre.filter = "founder"

\* the step is updateProgress writing the width
ProgressStep ==
    /\ animationFrameId /\ ~animationFrameId' /\ isScrolling
    /\ tornDown' = tornDown

\* C10: when updateProgress writes with documentHeight - viewportHeight > 0, the
\* width is 100 * scrollTop / (documentHeight - viewportHeight) clamped to
\* [0, 100]: 0 at or above the top, 100 at or below the bottom.
C10_ProgressIsClampedFraction ==
    [][(ProgressStep /\ scrollHeight - innerHeight > 0) =>
        LET docHeight == scrollHeight - innerHeight
            w == progressWidth'
        IN  /\ w.k = "num"
            /\ w = scrollPercent'
            /\ IF pageYOffset <= 0 THEN w.n = 0
               ELSE IF pageYOffset >= docHeight THEN w.n = 100 /\ w.d = 1
               ELSE w.n * docHeight = 100 * pageYOffset * w.d]_vars

\* the width was written as 100 with the page scrolled to the bottom
C10_Witness ==
    /\ scrollHeight - innerHeight > 1
    /\ pageYOffset = scrollHeight - innerHeight
    /\ isScrolling /\ ~ticking /\ ~animationFrameId
    /\ progressWidth = Num(100, 1)

\* C11: when updateProgress writes with documentHeight - viewportHeight <= 0, the
\* value it puts into the width is a number in [0, 100], never NaN.
C11_NoNaNWritten ==
    [][(ProgressStep /\ scrollHeight - innerHeight <= 0) =>
        /\ scrollPercent'.k = "num"
        /\ 0 <= scrollPercent'.n
        /\ scrollPercent'.n <= 100 * scrollPercent'.d]_vars

\* the requests of updateProgress that are pending
PendingFrames == (IF animationFrameId THEN 1 ELSE 0) + staleFrames

\* C12: at most one animation-frame request of updateProgress is pending in every
\* state, however many scroll notifications arrived since the last frame.
C12_OneProgressRequestPending == PendingFrames <= 1

\* a scroll notification arrived while the request of an earlier one was pending,
\* and one request is pending
C12_Witness ==
    /\ lastOp = <<"scroll">>
    /\ pre.frame /\ pre.ticking
    /\ PendingFrames = 1

\* no later scroll notification can cause an update: requestTick asks for no frame
\* while ticking is set, and only a frame clears ticking
Stuck == ticking /\ PendingFrames = 0

\* once stuck the tracker stays stuck and the width is never written again
StuckForever == [][Stuck => (Stuck' /\ progressWidth' = progressWidth)]_vars

\* C13: while the page lives the tracker is never stuck: whenever ticking is set, a
\* frame that will run updateProgress is pending.
C13_NeverStuck == ~tornDown => ~Stuck

\* C14: each marker has at most one revert timer pending and carries the class
\* animated exactly while it has one; a viewport entry that finds the timer
\* pending starts no timer and leaves the marker's style alone; the class is
\* removed exactly by the step in which the revert runs.
C14_OnePulsePerMarker ==
    /\ [](\A s \in timelineSections :
            /\ revertTimers[s] <= 1
            /\ (s \in animated) = (revertTimers[s] = 1))
    /\ [][\A s \in timelineSections :
            /\ (revertTimers[s] > 0 /\ revertTimers'[s] >= revertTimers[s]) =>
                    /\ revertTimers'[s] = revertTimers[s]
                    /\ transform'[s] = transform[s]
                    /\ s \in animated'
            /\ (s \in animated /\ s \notin animated') =
                    (revertTimers'[s] < revertTimers[s])]_vars

\* section s1 entered the viewport again while the revert timer of its marker
\* was pending: the marker is still in its first pulse
C14_Witness ==
    /\ lastOp = <<"intersect", "s1", TRUE>>
    /\ pre.revertTimers["s1"] = 1 /\ "s1" \in pre.animated
    /\ revertTimers["s1"] = 1 /\ "s1" \in animated
    /\ transform["s1"] = "scale(1.2)"

\* C15: the step that runs destroy leaves no animation-frame request of
\* updateProgress and no revert timer of a marker pending.
C15_TeardownLeavesNothingPending ==
    [][(~tornDown /\ tornDown') =>
        /\ PendingFrames' = 0
        /\ \A s \in timelineSections : revertTimers'[s] = 0]_vars

\* the timers of debouncedSearch that are pending
PendingSearchTimers == (IF searchTimeout THEN 1 ELSE 0) + staleSearchTimers

\* C16: at most one timer of debouncedSearch is pending in every state; a
\* keystroke leaves exactly its own timer pending and runs no pass itself, also
\* when it arrives while the timer of the previous keystroke is pending; when the
\* timer fires, it is the timer of the last keystroke, no timer is left, one pass
\* is queued and the search term is the value typed last.
C16_SearchIsDebounced ==
    /\ [](PendingSearchTimers <= 1)
    /\ [][/\ lastOp' = <<"input">> =>
                /\ searchTimeout' /\ PendingSearchTimers' = 1
                /\ currentSearchTerm' = inputValue'
                /\ rafPending' = rafPending
                /\ display' = display /\ opacity' = opacity /\ nodes' = nodes
          /\ lastOp' = <<"debouncedSearch">> =>
                /\ searchTimeout
                /\ PendingSearchTimers' = 0
                /\ rafPending' = rafPending + 1
                /\ currentSearchTerm' = inputValue]_vars

\* a keystroke arrived while the timer of the previous keystroke was pending: the
\* term is the one typed last and one timer is pending
C16_Witness ==
    /\ lastOp = <<"input">>
    /\ pre.timer /\ pre.term = <<"A">> /\ pre.raf = 0
    /\ currentSearchTerm = << >>
    /\ PendingSearchTimers = 1 /\ rafPending = 0

\* C17: the step of an explicit submit (Enter key or search button) leaves every
\* event with the visibility of the submitted state: visible iff it matches the
\* search term and the filter.
C17_SubmitAppliesVisibility ==
    [][(EnterKey \/ SearchButtonClick) =>
        \A e \in events :
            (opacity'[e] # "0" /\ display'[e] # "none") =
                (/\ matchesSearch(eventData[e], currentSearchTerm')
                 /\ matchesFilter(eventData[e], currentFilter', currentSubcategory'))]_vars

\* C18: neither the constructor nor any handler raises, whichever of the search
\* input, the filter button 'all' and the picker containers the page lacks.
C18_NeverRaises == ~raised

\* C19: after highlightSearchTerm and then removeHighlights, the text of the title
\* and of the description is the text they had before, for every text and term.
C19_HighlightRoundTrip ==
    (fnArgs.fn = "highlight" /\ Len(fnResult) = 2) =>
        /\ textContent(fnResult[2].title) = fnArgs.title
        /\ textContent(fnResult[2].description) = fnArgs.description

\* the round trip on texts without a '<': highlighting and clearing restores them
RoundTripOfPlainText ==
    (/\ fnArgs.fn = "highlight" /\ Len(fnResult) = 2
     /\ \A i \in 1..Len(fnArgs.title) : fnArgs.title[i] # "<") =>
        /\ fnResult[2].title = TextNodes(fnArgs.title)
        /\ textContent(fnResult[2].description) = fnArgs.description

\* no pass is queued and no timer of a pass is pending
Settled ==
    /\ rafPending = 0 /\ sectionTimers = 0
    /\ \A e \in events : hideTimers[e] = 0

\* the filter, subcategory and term a pass would read now
ParamsRead == <<currentFilter, currentSubcategory, currentSearchTerm>>

\* C20: a pass that reads the filter, subcategory and term the pass before it read
\* changes no event's display, opacity or highlight markers (it only starts its
\* timers again), several passes run in one frame leave the markers one pass
\* leaves, and once the timers have settled the events and sections are in the
\* state given by that filter, subcategory and term alone, however many passes
\* read them (passes that ran to their end: no callback has thrown).
C20_PassIsIdempotent ==
    /\ []((Settled /\ passRead = ParamsRead /\ ~raised) =>
            /\ \A e \in events :
                /\ display[e] = (IF shouldShow(e) THEN "flex" ELSE "none")
                /\ opacity[e] = (IF shouldShow(e) THEN "1" ELSE "0")
            /\ \A s \in timelineSections :
                sectionDisplay[s] =
                    (IF \E e \in events : SectionOf(e) = s /\ shouldShow(e)
                     THEN "block" ELSE "none"))
    /\ [][(lastOp' = <<"pass">> /\ passRead = ParamsRead) =>
            /\ display' = display /\ opacity' = opacity /\ nodes' = nodes
            /\ sectionDisplay' = sectionDisplay]_vars
    /\ [][lastOp' = <<"pass">> =>
            nodes' = [e \in events |-> passNodes(nodes[e], e)]]_vars

\* the pass has run again with the term A it read before: the title of e1 carries
\* the one highlight span the first pass gave it, and e2, which the first pass
\* hid and whose timer has fired, is fading again with a new timer
C20_Witness ==
    /\ lastOp = <<"pass">>
    /\ pre.read = ParamsRead
    /\ currentSearchTerm = <<"A">> /\ currentFilter = "all"
    /\ pre.opacity["e1"] = "1"
    /\ opacity["e1"] = "1" /\ display["e1"] = "flex"
    /\ nodes["e1"].title = << SpanNode(<<"A">>), TextNode(<<"b">>) >>
    /\ pre.display["e2"] = "none" /\ pre.opacity["e2"] = "0"
    /\ display["e2"] = "none" /\ opacity["e2"] = "0" /\ hideTimers["e2"] = 1

\* ------------------------------------------------------------------- C21
\* the card of a matchesFilter call, as the record the call reads
CalledCard ==
    [text |-> << >>, category |-> fnArgs.category, subcategory |-> fnArgs.subcategory]

\* C21: matchesFilter is monotonic under narrowing: a card that matches under
\* a filter, with or without a subcategory, also matches under the filter 'all',
\* whatever subcategory is held then; so the set of events matching under a
\* specific category is a subset of the set matching under 'all'.
C21_NarrowingIsMonotonic ==
    (fnArgs.fn = "matchesFilter" /\ fnResult # << >> /\ fnResult[1]) =>
        \A s \in SubCodes \cup {NULL} : matchesFilter(CalledCard, "all", s)

\* matchesFilter was called under a specific category on a card of another
\* category and returned false, while the card matches under 'all': the
\* narrowing removed a match
C21_Witness ==
    /\ fnArgs.fn = "matchesFilter"
    /\ fnArgs.filter = "founder" /\ fnArgs.sub = NULL
    /\ fnArgs.category = "regulation"
    /\ fnResult = << FALSE >>
    /\ matchesFilter(CalledCard, "all", NULL)

\* ------------------------------------------------------------------- C22
\* C22: a fade-then-hide timer sets an event not-displayed only if the event is
\* still faded (opacity 0) when the timer fires, and nothing else sets an event
\* not-displayed; so an event the most recent pass made visible (opacity 1) is
\* displayed in every state, whatever timers earlier passes left pending.
C22_StaleTimerSparesVisible ==
    /\ [](\A e \in events : opacity[e] = "1" => display[e] = "flex")
    /\ [][\A e \in events :
            (display'[e] = "none" /\ display[e] # "none") =>
                /\ opacity[e] = "0"
                /\ hideTimers[e] > 0 /\ hideTimers'[e] = hideTimers[e] - 1]_vars
    /\ [][lastOp' = <<"hideTimer">> =>
            \A e \in events : opacity[e] # "0" => display'[e] = display[e]]_vars

\* a pass hid e2 and started its timer, a later pass made e2 visible again, and
\* then the timer of the earlier pass fired: e2 is still displayed
C22_Witness ==
    /\ lastOp = <<"hideTimer">>
    /\ pre.opacity["e2"] = "1" /\ pre.display["e2"] = "flex"
    /\ hideTimers["e1"] = 0 /\ hideTimers["e2"] = 0
    /\ opacity["e2"] = "1" /\ display["e2"] = "flex"
    /\ shouldShow("e2")

\* ------------------------------------------------------------------- C27
\* C27: in every reachable state a subcategory picker is marked shown only if it
\* is the picker of the current filter; no picker is shown while the filter is
\* 'all'.
C27_PickerOnlyOfActiveCategory ==
    /\ \A c \in show : c = currentFilter
    /\ currentFilter = "all" => show = {}

\* ------------------------------------------------------------------- C28
\* C28: in every reachable state a subcategory button is marked active iff its
\* code equals currentSubcategory; no subcategory button is marked active while
\* currentSubcategory is null.
C28_ActiveSubcategoryButton ==
    /\ \A s \in subcategoryButtons : (s \in subActive) <=> (s = currentSubcategory)
    /\ currentSubcategory = NULL => subActive = {}

\* ------------------------------------------------------------------- C23
\* the step is a section-visibility timer firing on a timed page
SectionTimerStep == sectionDue # << >> /\ sectionDue' = Tail(sectionDue)

\* the time at which the pass that started the oldest section timer ran
OldestPassTime == Head(sectionDue) - SectionDelay

\* C23: the section-visibility update a pass scheduled fires strictly after the
\* fade-then-hide timers the same pass started: when it fires, no timer that the
\* same pass started for a hidden event is still pending, so every event the
\* pass hid is already not displayed.
C23_SectionUpdateAfterFade ==
    [][SectionTimerStep =>
        \A e \in events :
            \A i \in 1..Len(hideDue[e]) :
                hideDue[e][i] # OldestPassTime + FadeDelay]_vars

\* ------------------------------------------------------------------- C24
\* the children ns of an element carry highlight markers for exactly the term:
\* every span holds one occurrence of the term (compared without case), no text
\* outside the spans holds an occurrence, and there is no span for the empty term
MarkedFor(ns, term) ==
    \A i \in 1..Len(ns) :
        IF ns[i].hl
        THEN term # << >> /\ toLowerCase(ns[i].text) = toLowerCase(term)
        ELSE term = << >> \/ ~includes(toLowerCase(ns[i].text), toLowerCase(term))

\* C24: after any pass, every event the pass left visible carries highlight
\* markers, in its title and its description, for exactly the search term the
\* pass read, and none when the term is empty. (The children of an element are
\* kept as a flat sequence of texts and spans: a span inside a span cannot be
\* written down, and highlightText, which builds on textContent, makes none.)
C24_VisibleEventsMarkedForTerm ==
    [][PassStep =>
        \A e \in events :
            (display'[e] = "flex" /\ opacity'[e] = "1") =>
                /\ MarkedFor(nodes'[e].title, currentSearchTerm)
                /\ MarkedFor(nodes'[e].description, currentSearchTerm)]_vars

\* ------------------------------------------------------------------- C26
\* input has stopped and every debounce timer, animation frame, fade timer and
\* section timer has fired
Quiescent ==
    /\ ~searchTimeout /\ ~filterTimeout
    /\ staleSearchTimers = 0 /\ staleFilterTimers = 0
    /\ Settled

\* C26: once nothing is pending, each event is displayed iff it satisfies
\* matchesSearch and matchesFilter for the final search term, filter and
\* subcategory.
C26_ConvergesWhenQuiescent ==
    Quiescent =>
        \A e \in events :
            (display[e] # "none") <=>
                (/\ matchesSearch(eventData[e], currentSearchTerm)
                 /\ matchesFilter(eventData[e], currentFilter, currentSubcategory))

\* ------------------------------------------------------------------- C25
\* C25: in the non-debounced variants the fade timer has no opacity guard:
\* whenever a fade timer of an event fires, the event is not displayed
\* afterwards, whatever its opacity was; so the timer of an event that was faded
\* by one action and shown again by another sets it not-displayed although it
\* matches.
C25_SyncTimerHidesRegardless ==
    [][\A e \in events :
            hideTimers'[e] = hideTimers[e] - 1 => display'[e] = "none"]_vars

\* the race of TimelineFilter: 'regulation' faded e1, 'all' showed it again, and
\* then the timer of the first click fired: e1 is not displayed, with opacity 1,
\* although every event matches 'all'
C25_Witness ==
    /\ script = "TimelineFilter"
    /\ lastOp = <<"hideTimer">>
    /\ currentFilter = "all"
    /\ filterEventsShows("e1", currentFilter, currentSubcategory)
    /\ pre.opacity["e1"] = "1" /\ pre.display["e1"] = "flex"
    /\ opacity["e1"] = "1" /\ display["e1"] = "none"

\* the same race in the second TimelineController: a term faded e2, the empty
\* term showed it again, and then the timer fired
RaceOfSecondController ==
    /\ script = "TimelineControllerSync"
    /\ lastOp = <<"hideTimer">>
    /\ applyAllFiltersShows("e2", currentSearchTerm)
    /\ pre.opacity["e2"] = "1" /\ pre.display["e2"] = "flex"
    /\ opacity["e2"] = "1" /\ display["e2"] = "none"

====
